---------------------------- MODULE Spec2Model ----------------------------
(***************************************************************************)
(* AwsConnectionWrapper (airflow.providers.amazon.aws.utils.               *)
(* connection_wrapper), as exercised by                                    *)
(* providers/amazon/tests/unit/amazon/aws/utils/test_connection_wrapper.py *)
(*                                                                         *)
(* A stored connection is resolved into a wrapper (Construct), a wrapper   *)
(* may be wrapped again with overrides (Wrap), and the resolved wrapper    *)
(* answers get_service_config / get_service_endpoint_url.                  *)
(*                                                                         *)
(* Encoding of Python values:                                              *)
(*   None as a string-typed value        -> None    ("None")               *)
(*   None where an object/dict may stand -> NoneObj ([none |-> TRUE])      *)
(*   dict                                -> TLA+ function, {} is <<>>      *)
(*   botocore Config(kw...)              -> [kwargs |-> kw]                *)
(*   a returned dict                     -> [mapping |-> its items,        *)
(*                                           shared |-> whether it is the  *)
(*                                           very object the wrapper keeps]*)
(***************************************************************************)
EXTENDS Integers, Sequences, FiniteSets, TLC

VARIABLES
    pc,            \* "new" | "built" | "failed": position of the caller
    conn,          \* the `conn` argument of the constructor call
    args,          \* the keyword overrides of the constructor call
    orig_wrapper,  \* the wrapper built by the constructor call
    wrap_conn,     \* the current wrapper (orig_wrapper, or a chain of wraps of it)
    overrides,     \* the keyword overrides of each successive wrap, in order
    result,        \* what the last method call returned or raised
    warnings,      \* warnings emitted by the constructor call
    session_store, \* the session keyword mapping wrap_conn keeps
    returned,      \* the mapping the caller got from session_kwargs and may mutate
    config_builds  \* how many times Config(...) was called

vars == <<pc, conn, args, orig_wrapper, wrap_conn, overrides, result, warnings,
          session_store, returned, config_builds>>

(***************************************************************************)
(* Bounds                                                                  *)
(***************************************************************************)
MaxWraps == 2

(***************************************************************************)
(* Values                                                                  *)
(***************************************************************************)
None == "None"
NoneObj == [none |-> TRUE]
NOTSET == "NOTSET"
EmptyDict == <<>>

MOCK_AWS_CONN_ID == "mock-conn-id"
MOCK_CONN_TYPE == "aws"
MOCK_ROLE_ARN == "arn:aws:iam::222222222222:role/awesome-role"

\* dict.get(key) for a string-valued key: None when the key is absent
Get(d, k) == IF k \in DOMAIN d THEN d[k] ELSE None

\* dict.get(key, {}) for a dict-valued key
GetDict(d, k) == IF k \in DOMAIN d THEN d[k] ELSE EmptyDict

\* the set {{}} \cup {{k: v}}: key k absent, or present with one of vals
Opt(k, vals) == {EmptyDict} \cup {k :> v : v \in vals}

\* Connection(conn_id=..., conn_type=..., ...) of the tests
Connection(conn_id, conn_type, login, password, extra) ==
    [conn_id |-> conn_id, conn_type |-> conn_type, login |-> login,
     password |-> password, extra |-> extra]

\* mock_connection_factory: conn_id and conn_type default to the mock values
mock_connection_factory(login, password, extra) ==
    Connection(MOCK_AWS_CONN_ID, MOCK_CONN_TYPE, login, password, extra)

\* Connection.extra_dejson: extra=None reads as the empty dict
extra_dejson(c) == IF c.extra = NoneObj THEN EmptyDict ELSE c.extra


(***************************************************************************)
(* Resolution of the wrapper's fields from a stored connection             *)
(***************************************************************************)

GetCredentials_LoginOnly(login, password, extra) ==
    [aws_access_key_id |->
        IF login # None THEN login ELSE Get(extra, "aws_access_key_id"),
     aws_secret_access_key |->
        IF login # None THEN password ELSE Get(extra, "aws_secret_access_key"),
     aws_session_token |-> Get(extra, "aws_session_token")]

\* Credentials: login/password when both are given, else the extra's keys;
\* the session token comes from the extra only.
GetCredentials(login, password, extra) ==
    [aws_access_key_id |->
        IF login # None /\ password # None
        THEN login ELSE Get(extra, "aws_access_key_id"),
     aws_secret_access_key |->
        IF login # None /\ password # None
        THEN password ELSE Get(extra, "aws_secret_access_key"),
     aws_session_token |-> Get(extra, "aws_session_token")]

ResolveRegionName_ExtraFirst(region_name, extra) ==
    IF Get(extra, "region_name") # None THEN extra["region_name"] ELSE region_name

\* region_name: the explicit argument, else the extra's region_name
ResolveRegionName(region_name, extra) ==
    IF region_name # None THEN region_name ELSE Get(extra, "region_name")

\* Config built from config_kwargs, with signature_version "unsigned" -> UNSIGNED
BuildConfig(config_kwargs) ==
    [kwargs |-> [k \in DOMAIN config_kwargs |->
        IF k = "signature_version" /\ config_kwargs[k] = "unsigned"
        THEN "UNSIGNED" ELSE config_kwargs[k]]]

\* whether the constructor calls Config(...): no override, config_kwargs given
BuildsConfig(botocore_config, extra) ==
    botocore_config = NoneObj /\ "config_kwargs" \in DOMAIN extra

\* botocore_config: the explicit argument, else built from config_kwargs
ResolveBotocoreConfig(botocore_config, extra) ==
    IF botocore_config # NoneObj THEN botocore_config
    ELSE IF BuildsConfig(botocore_config, extra)
         THEN BuildConfig(extra["config_kwargs"])
         ELSE NoneObj

AssumeRoleMethods ==
    {"assume_role", "assume_role_with_saml", "assume_role_with_web_identity"}

UnsupportedAssumeRoleMethod_WithoutRoleArn(extra) ==
    /\ Get(extra, "assume_role_method") # None
    /\ Get(extra, "assume_role_method") \notin AssumeRoleMethods

\* The constructor raises NotImplementedError for an unknown assume_role_method
UnsupportedAssumeRoleMethod(extra) ==
    /\ Get(extra, "role_arn") # None
    /\ Get(extra, "assume_role_method") # None
    /\ Get(extra, "assume_role_method") \notin AssumeRoleMethods

\* assume_role_method: only with a role_arn; defaults to assume_role
ResolveAssumeRoleMethod(extra) ==
    IF Get(extra, "role_arn") = None THEN None
    ELSE IF Get(extra, "assume_role_method") = None THEN "assume_role"
    ELSE extra["assume_role_method"]

\* A top-level external_id is put under ExternalId of kwargs that have none
InjectExternalId(kwargs, extra) ==
    IF Get(extra, "external_id") # None
    THEN ("ExternalId" :> extra["external_id"]) @@ kwargs
    ELSE kwargs

ResolveAssumeRoleKwargs_TopLevelWins(extra) ==
    IF Get(extra, "role_arn") = None THEN EmptyDict
    ELSE InjectExternalId(GetDict(extra, "assume_role_kwargs"), extra)

ResolveAssumeRoleKwargs_OnlyExternalId(extra) ==
    IF Get(extra, "role_arn") = None THEN EmptyDict
    ELSE LET kwargs == GetDict(extra, "assume_role_kwargs")
         IN  IF "ExternalId" \in DOMAIN kwargs
             THEN [k \in {"ExternalId"} |-> kwargs[k]]
             ELSE InjectExternalId(kwargs, extra)

\* assume_role_kwargs: the extra's assume_role_kwargs; an ExternalId given
\* there is kept whether or not the extra also has a top-level external_id
ResolveAssumeRoleKwargs(extra) ==
    IF Get(extra, "role_arn") = None THEN EmptyDict
    ELSE LET kwargs == GetDict(extra, "assume_role_kwargs")
         IN  IF "ExternalId" \in DOMAIN kwargs THEN kwargs
             ELSE InjectExternalId(kwargs, extra)

ConnTypeWarning_IgnoresCase(conn_type) ==
    IF conn_type # None /\ conn_type \notin {"aws", "AWS"}
    THEN {"expected connection type 'aws', got '" \o conn_type \o "'"}
    ELSE {}

\* Warnings of the constructor
ConnTypeWarning(conn_type) ==
    IF conn_type # None /\ conn_type # "aws"
    THEN {"expected connection type 'aws', got '" \o conn_type \o "'"}
    ELSE {}

ProfileWarning(extra) ==
    IF "profile" \in DOMAIN extra /\ "s3_config_file" \notin DOMAIN extra
    THEN {"Found 'profile' without specifying 's3_config_file'"}
    ELSE {}

ResolveProfileName_LegacyProfile(extra) ==
    IF Get(extra, "profile_name") # None THEN extra["profile_name"]
    ELSE Get(extra, "profile")

\* profile_name: the extra's profile_name; the legacy profile key is not read
ResolveProfileName(extra) == Get(extra, "profile_name")

\* AwsConnectionWrapper(conn=None, ...): only the overrides are set
FromNothing(region_name, botocore_config) ==
    [conn_id |-> NOTSET, conn_type |-> None, login |-> None, password |-> None,
     extra_config |-> EmptyDict,
     aws_access_key_id |-> None, aws_secret_access_key |-> None,
     aws_session_token |-> None,
     profile_name |-> None, endpoint_url |-> None,
     role_arn |-> None, assume_role_method |-> None,
     assume_role_kwargs |-> EmptyDict, service_config |-> EmptyDict,
     region_name |-> region_name, botocore_config |-> botocore_config]

\* AwsConnectionWrapper(conn=<Connection>, ...)
FromConnection(c, region_name, botocore_config) ==
    LET extra == extra_dejson(c)
        creds == GetCredentials(c.login, c.password, extra)
    IN  [conn_id |-> c.conn_id,
         conn_type |-> IF c.conn_type = None THEN "aws" ELSE c.conn_type,
         login |-> c.login, password |-> c.password,
         extra_config |-> extra,
         aws_access_key_id |-> creds.aws_access_key_id,
         aws_secret_access_key |-> creds.aws_secret_access_key,
         aws_session_token |-> creds.aws_session_token,
         profile_name |-> ResolveProfileName(extra),
         endpoint_url |-> Get(extra, "endpoint_url"),
         role_arn |-> Get(extra, "role_arn"),
         assume_role_method |-> ResolveAssumeRoleMethod(extra),
         assume_role_kwargs |-> ResolveAssumeRoleKwargs(extra),
         service_config |-> GetDict(extra, "service_config"),
         region_name |-> ResolveRegionName(region_name, extra),
         botocore_config |-> ResolveBotocoreConfig(botocore_config, extra)]

\* The init fields of the dataclass (keyword overrides); all others are non-init
InitFields == {"region_name", "botocore_config"}

NonInitFields(w) == [f \in (DOMAIN w) \ InitFields |-> w[f]]

FromWrapper_OverridesAssigned(w, region_name, botocore_config) ==
    [w EXCEPT !.region_name = region_name, !.botocore_config = botocore_config]

\* AwsConnectionWrapper(conn=<AwsConnectionWrapper>, ...)
FromWrapper(w, region_name, botocore_config) ==
    [w EXCEPT
        !.region_name = IF region_name # None THEN region_name ELSE w.region_name,
        !.botocore_config =
            IF botocore_config # NoneObj THEN botocore_config ELSE w.botocore_config]

\* a wrapper of no connection that was still given an override
HasExplicitOverride(w) ==
    \/ w.region_name # None
    \/ w.botocore_config # NoneObj

BuiltFromConnection_ConnIdRequired(w) == w.conn_id \notin {NOTSET, None}

\* a wrapper built from a connection has its conn_id set (None included)
BuiltFromConnection(w) == w.conn_id # NOTSET

\* bool(wrapper)
Truthy(w) == BuiltFromConnection(w) \/ HasExplicitOverride(w)

(***************************************************************************)
(* Methods of a resolved wrapper                                           *)
(***************************************************************************)
Returned(v) == [raised |-> "", value |-> v]
Raised(e) == [raised |-> e, value |-> None]

get_service_config_NullAsEmpty(w, service_name) ==
    IF service_name \in DOMAIN w.service_config
       /\ w.service_config[service_name] # NoneObj
    THEN w.service_config[service_name]
    ELSE EmptyDict

\* get_service_config(service_name)
get_service_config(w, service_name) ==
    IF service_name \in DOMAIN w.service_config
    THEN w.service_config[service_name]
    ELSE EmptyDict

\* a service's entry that is a dict, not an explicit null
IsDict(service_config) == service_config # NoneObj

HasEndpointUrl_NonNull(service_config) ==
    /\ IsDict(service_config)
    /\ "endpoint_url" \in DOMAIN service_config
    /\ service_config["endpoint_url"] # None

\* whether a service's config holds the key endpoint_url (its value may be None)
HasEndpointUrl(service_config) ==
    /\ IsDict(service_config)
    /\ "endpoint_url" \in DOMAIN service_config

get_service_endpoint_url_GlobalFallback(w, service_name, sts_connection_assume, sts_test_connection) ==
    LET service_config == get_service_config(w, service_name)
    IN  IF service_name = "sts" /\ sts_connection_assume /\ sts_test_connection
        THEN Raised("AirflowException: Can't resolve STS endpoint when both")
        ELSE Returned(IF HasEndpointUrl(service_config)
                      THEN service_config["endpoint_url"]
                      ELSE w.endpoint_url)

get_service_endpoint_url_StsNeverGlobal(w, service_name, sts_connection_assume, sts_test_connection) ==
    LET service_config == get_service_config(w, service_name)
    IN  IF service_name = "sts" /\ sts_connection_assume /\ sts_test_connection
        THEN Raised("AirflowException: Can't resolve STS endpoint when both")
        ELSE Returned(IF HasEndpointUrl(service_config)
                      THEN service_config["endpoint_url"]
                      ELSE IF service_name = "sts" THEN None ELSE w.endpoint_url)

get_service_endpoint_url_NullEntryRaises(w, service_name, sts_connection_assume, sts_test_connection) ==
    LET service_config == get_service_config(w, service_name)
        sts_flagged == service_name = "sts"
                       /\ (sts_connection_assume \/ sts_test_connection)
    IN  IF sts_flagged /\ sts_connection_assume /\ sts_test_connection
        THEN Raised("AirflowException: Can't resolve STS endpoint when both")
        ELSE IF service_config = NoneObj
        THEN Raised("AttributeError: 'NoneType' object has no attribute 'get'")
        ELSE Returned(IF HasEndpointUrl(service_config)
                      THEN service_config["endpoint_url"]
                      ELSE IF sts_flagged THEN None ELSE w.endpoint_url)

get_service_endpoint_url_RaisesAnyService(w, service_name, sts_connection_assume, sts_test_connection) ==
    LET service_config == get_service_config(w, service_name)
        sts_flagged == service_name = "sts"
                       /\ (sts_connection_assume \/ sts_test_connection)
    IN  IF sts_connection_assume /\ sts_test_connection
        THEN Raised("AirflowException: Can't resolve STS endpoint when both")
        ELSE Returned(IF HasEndpointUrl(service_config)
                      THEN service_config["endpoint_url"]
                      ELSE IF sts_flagged THEN None ELSE w.endpoint_url)

\* get_service_endpoint_url(service_name, sts_connection_assume, sts_test_connection)
get_service_endpoint_url(w, service_name, sts_connection_assume, sts_test_connection) ==
    LET service_config == get_service_config(w, service_name)
        sts_flagged == service_name = "sts"
                       /\ (sts_connection_assume \/ sts_test_connection)
        global_endpoint_url == IF sts_flagged THEN None ELSE w.endpoint_url
    IN  IF sts_flagged /\ sts_connection_assume /\ sts_test_connection
        THEN Raised("AirflowException: Can't resolve STS endpoint when both")
        ELSE Returned(IF HasEndpointUrl(service_config)
                      THEN service_config["endpoint_url"]
                      ELSE global_endpoint_url)

SessionKeys ==
    {"aws_access_key_id", "aws_secret_access_key", "aws_session_token",
     "profile_name", "region_name"}

\* the session keyword mapping: the session fields that are set
session_kwargs(w) == [k \in {f \in SessionKeys : w[f] # None} |-> w[k]]

RetrieveSessionKwargs_SameObject(store) == [mapping |-> store, shared |-> TRUE]

\* wrap_conn.session_kwargs: a new dict with the items of the kept mapping
RetrieveSessionKwargs(store) == [mapping |-> store, shared |-> FALSE]

\* d[k] = v, or del d[k] when v is None
MutateDict(d, k, v) ==
    IF v = None THEN [x \in (DOMAIN d) \ {k} |-> d[x]]
    ELSE (k :> v) @@ d

ReadBotocoreConfig_Rebuilds(w, extra, builds) ==
    [config |-> w.botocore_config,
     builds |-> IF "config_kwargs" \in DOMAIN extra THEN builds + 1 ELSE builds]

\* wrap_conn.botocore_config: the object resolved by the constructor
ReadBotocoreConfig(w, extra, builds) ==
    [config |-> w.botocore_config, builds |-> builds]

(***************************************************************************)
(* Constructor calls the caller may make (the inputs of the tests, each    *)
(* group varying the keys one resolution rule reads)                       *)
(***************************************************************************)
Call(c, region_name, botocore_config) ==
    [conn |-> c, region_name |-> region_name, botocore_config |-> botocore_config]

ConfigOverride == [kwargs |-> [region_name |-> "ap-southeast-1"]]

\* login/password against the credential keys of the extra
CredentialCalls ==
    { Call(mock_connection_factory(login, password, a @@ s @@ t), None, NoneObj) :
        login \in {None, "mock-login"},
        password \in {None, "mock-password"},
        a \in Opt("aws_access_key_id", {None, "mock-aws-access-key-id"}),
        s \in Opt("aws_secret_access_key", {None, "mock-aws-secret-access-key"}),
        t \in Opt("aws_session_token", {None, "mock-aws-session-token"}) }

\* region_name argument against the extra's region_name, with the profile keys
RegionCalls ==
    { Call(mock_connection_factory(None, None, r @@ p @@ q @@ f), region_name, NoneObj) :
        region_name \in {None, "mock-region-name"},
        r \in Opt("region_name", {None, "mock-connection-region-name"}),
        p \in Opt("profile_name", {"mock-profile"}),
        q \in Opt("profile", {"mock-profile"}),
        f \in Opt("s3_config_file", {"mock-config-file"}) }

\* role_arn, assume_role_method, assume_role_kwargs and external_id
AssumeRoleCalls ==
    { Call(mock_connection_factory(None, None, r @@ m @@ k @@ x), None, NoneObj) :
        r \in Opt("role_arn", {MOCK_ROLE_ARN}),
        m \in Opt("assume_role_method", AssumeRoleMethods \cup {"dummy_method"}),
        k \in Opt("assume_role_kwargs",
                  { EmptyDict,
                    [DurationSeconds |-> "42"],
                    [ExternalId |-> "mock-external-id-in-kwargs"],
                    [ExternalId |-> "mock-external-id-in-kwargs",
                     DurationSeconds |-> "42"] }),
        x \in Opt("external_id", {"mock-external-id-in-extra"}) }

\* what one service's entry of service_config may be
ServiceConfigs(url) ==
    { EmptyDict, NoneObj, [foo |-> "bar"],
      [endpoint_url |-> url], [endpoint_url |-> None] }

\* global endpoint_url against service_config of sts and sns (ec2 has no entry)
EndpointCalls ==
    { Call(Connection("foo-bar", MOCK_CONN_TYPE, None, None, g @@ c), None, NoneObj) :
        g \in Opt("endpoint_url", {"https://global.service"}),
        c \in Opt("service_config",
                  { a @@ b : a \in Opt("sts", ServiceConfigs("https://sts.service:1234")),
                             b \in Opt("sns", ServiceConfigs("https://foo.bar")) }) }

\* no connection, or conn_id / conn_type given or not, with or without overrides
ConnectionCalls ==
    { Call(c, region_name, botocore_config) :
        c \in {NoneObj} \cup
              { Connection(conn_id, conn_type, None, None, extra) :
                  conn_id \in {None, MOCK_AWS_CONN_ID},
                  conn_type \in {None, "aws", "AWS", "emr"},
                  extra \in {NoneObj, [foo |-> "bar", spam |-> "egg"]} },
        region_name \in {None, "mock-region"},
        botocore_config \in {NoneObj, [kwargs |-> [user_agent |-> "Airflow Amazon Provider"]]} }

\* botocore_config argument against the extra's config_kwargs
ConfigCalls ==
    { Call(mock_connection_factory(None, None, k), None, botocore_config) :
        k \in Opt("config_kwargs",
                  { EmptyDict,
                    [user_agent |-> "Airflow Amazon Provider"],
                    [signature_version |-> "unsigned"] }),
        botocore_config \in {NoneObj, ConfigOverride} }

\* the first orig_wrapper of test_wrap_wrapper
WrapCalls ==
    { Call(mock_connection_factory("mock-login", "mock-password",
            [region_name |-> "mock-region",
             botocore_kwargs |-> [user_agent |-> "Airflow Amazon Provider"],
             role_arn |-> MOCK_ROLE_ARN,
             aws_session_token |-> "mock-aws-session-token"]), None, NoneObj) }

ConstructorCalls ==
    CredentialCalls \cup RegionCalls \cup AssumeRoleCalls \cup EndpointCalls
        \cup ConnectionCalls \cup ConfigCalls \cup WrapCalls

ServiceNames == {"sts", "sns", "ec2"}

\* keys the caller sets or deletes in a mapping session_kwargs returned
MutatedKeys == {"botocore_session", "region_name"}

(***************************************************************************)
(* The state machine                                                       *)
(***************************************************************************)
Init ==
    /\ pc = "new"
    /\ conn = NoneObj
    /\ args = NoneObj
    /\ orig_wrapper = NoneObj
    /\ wrap_conn = NoneObj
    /\ overrides = <<>>
    /\ result = NoneObj
    /\ warnings = {}
    /\ session_store = NoneObj
    /\ returned = NoneObj
    /\ config_builds = 0

\* AwsConnectionWrapper(conn=None, region_name=..., botocore_config=...)
ConstructFromNothing ==
    /\ pc = "new"
    /\ \E call \in ConstructorCalls :
        /\ call.conn = NoneObj
        /\ conn' = call.conn
        /\ args' = [region_name |-> call.region_name,
                    botocore_config |-> call.botocore_config]
        /\ orig_wrapper' = FromNothing(call.region_name, call.botocore_config)
        /\ wrap_conn' = orig_wrapper'
        /\ session_store' = session_kwargs(wrap_conn')
        /\ pc' = "built"
    /\ UNCHANGED <<overrides, result, warnings, returned, config_builds>>

\* AwsConnectionWrapper(conn=<Connection>, ...) that resolves
ConstructFromConnection ==
    /\ pc = "new"
    /\ \E call \in ConstructorCalls :
        /\ call.conn # NoneObj
        /\ ~UnsupportedAssumeRoleMethod(extra_dejson(call.conn))
        /\ conn' = call.conn
        /\ args' = [region_name |-> call.region_name,
                    botocore_config |-> call.botocore_config]
        /\ orig_wrapper' =
              FromConnection(call.conn, call.region_name, call.botocore_config)
        /\ wrap_conn' = orig_wrapper'
        /\ session_store' = session_kwargs(wrap_conn')
        /\ config_builds' =
              IF BuildsConfig(call.botocore_config, extra_dejson(call.conn))
              THEN config_builds + 1 ELSE config_builds
        /\ warnings' = ConnTypeWarning(call.conn.conn_type)
                          \cup ProfileWarning(extra_dejson(call.conn))
        /\ pc' = "built"
    /\ UNCHANGED <<overrides, result, returned>>

\* AwsConnectionWrapper(conn=<Connection>, ...) that raises NotImplementedError
ConstructRaises ==
    /\ pc = "new"
    /\ \E call \in ConstructorCalls :
        /\ call.conn # NoneObj
        /\ UnsupportedAssumeRoleMethod(extra_dejson(call.conn))
        /\ conn' = call.conn
        /\ args' = [region_name |-> call.region_name,
                    botocore_config |-> call.botocore_config]
        /\ warnings' = ConnTypeWarning(call.conn.conn_type)
        /\ result' = [op |-> "__init__",
                      raised |-> "NotImplementedError: Found assume_role_method='"
                                    \o extra_dejson(call.conn)["assume_role_method"]
                                    \o "'"]
        /\ pc' = "failed"
    /\ UNCHANGED <<orig_wrapper, wrap_conn, overrides, session_store, returned,
                   config_builds>>

\* wrap_conn = AwsConnectionWrapper(conn=wrap_conn, **wrap_kwargs)
Wrap ==
    /\ pc = "built"
    /\ Len(overrides) < MaxWraps
    /\ \E region_name \in {None, "ca-central-1"},
          botocore_config \in {NoneObj, ConfigOverride} :
        /\ wrap_conn' = FromWrapper(wrap_conn, region_name, botocore_config)
        /\ overrides' = Append(overrides, [region_name |-> region_name,
                                           botocore_config |-> botocore_config])
        /\ session_store' = session_kwargs(wrap_conn')
    /\ result' = NoneObj
    /\ returned' = NoneObj
    /\ UNCHANGED <<pc, conn, args, orig_wrapper, warnings, config_builds>>

\* wrap_conn.get_service_config(service_name)
GetServiceConfig ==
    /\ pc = "built"
    /\ \E service_name \in ServiceNames :
        result' = [op |-> "get_service_config", service_name |-> service_name,
                   config |-> get_service_config(wrap_conn, service_name)]
    /\ UNCHANGED <<pc, conn, args, orig_wrapper, wrap_conn, overrides, warnings,
                   session_store, returned, config_builds>>

\* wrap_conn.get_service_endpoint_url(service_name, sts_connection_assume=..,
\*                                    sts_test_connection=..)
GetServiceEndpointUrl ==
    /\ pc = "built"
    /\ \E service_name \in ServiceNames,
          sts_connection_assume \in BOOLEAN, sts_test_connection \in BOOLEAN :
        LET r == get_service_endpoint_url(wrap_conn, service_name,
                                          sts_connection_assume, sts_test_connection)
        IN  result' = [op |-> "get_service_endpoint_url",
                       service_name |-> service_name,
                       sts_connection_assume |-> sts_connection_assume,
                       sts_test_connection |-> sts_test_connection,
                       raised |-> r.raised, value |-> r.value]
    /\ UNCHANGED <<pc, conn, args, orig_wrapper, wrap_conn, overrides, warnings,
                   session_store, returned, config_builds>>

Next ==
    \/ ConstructFromNothing
    \/ ConstructFromConnection
    \/ ConstructRaises
    \/ Wrap
    \/ GetServiceConfig
    \/ GetServiceEndpointUrl

Spec == Init /\ [][Next]_vars

\* session_kwargs = wrap_conn.session_kwargs
ReadSessionKwargs ==
    /\ pc = "built"
    /\ returned' = RetrieveSessionKwargs(session_store)
    /\ result' = [op |-> "session_kwargs", mapping |-> returned'.mapping,
                  previous |-> IF returned = NoneObj THEN NoneObj
                               ELSE returned.mapping]
    /\ UNCHANGED <<pc, conn, args, orig_wrapper, wrap_conn, overrides, warnings,
                   session_store, config_builds>>

\* session_kwargs[k] = v  or  del session_kwargs[k]  on a returned mapping
MutateReturned ==
    /\ pc = "built"
    /\ returned # NoneObj
    /\ \E k \in MutatedKeys, v \in {None, "foo.bar"} :
        LET mutated == MutateDict(returned.mapping, k, v)
        IN  /\ mutated # returned.mapping
            /\ returned' = [returned EXCEPT !.mapping = mutated]
            /\ session_store' = IF returned.shared THEN mutated ELSE session_store
    /\ UNCHANGED <<pc, conn, args, orig_wrapper, wrap_conn, overrides, warnings,
                   result, config_builds>>

\* wrap_conn.botocore_config
GetBotocoreConfig ==
    /\ pc = "built"
    /\ LET r == ReadBotocoreConfig(wrap_conn, wrap_conn.extra_config, config_builds)
       IN  /\ result' = [op |-> "botocore_config", config |-> r.config]
           /\ config_builds' = r.builds
    /\ UNCHANGED <<pc, conn, args, orig_wrapper, wrap_conn, overrides, warnings,
                   session_store, returned>>

\* the constructor, wraps, and the reads of session_kwargs and botocore_config
NextReads ==
    \/ ConstructFromNothing
    \/ ConstructFromConnection
    \/ ConstructRaises
    \/ Wrap
    \/ ReadSessionKwargs
    \/ MutateReturned
    \/ GetBotocoreConfig

SpecReads == Init /\ [][NextReads]_vars


(***************************************************************************)
(* Properties                                                              *)
(***************************************************************************)

\* what the claims read off the constructor's inputs
Extra == IF conn = NoneObj \/ conn.extra = NoneObj THEN EmptyDict ELSE conn.extra

ExtraStr(k) == IF k \in DOMAIN Extra THEN Extra[k] ELSE None

BuiltFromConn == pc = "built" /\ conn # NoneObj

BothLoginPassword == conn.login # None /\ conn.password # None

\* C1: built from a stored connection, the access key id and secret key are
\* login and password when both are present and otherwise the extra's
\* aws_access_key_id / aws_secret_access_key; the session token is always
\* the extra's aws_session_token (None when absent).
C1_Credentials ==
    BuiltFromConn =>
        /\ BothLoginPassword =>
            /\ orig_wrapper.aws_access_key_id = conn.login
            /\ orig_wrapper.aws_secret_access_key = conn.password
        /\ ~BothLoginPassword =>
            /\ orig_wrapper.aws_access_key_id = ExtraStr("aws_access_key_id")
            /\ orig_wrapper.aws_secret_access_key = ExtraStr("aws_secret_access_key")
        /\ orig_wrapper.aws_session_token = ExtraStr("aws_session_token")

\* C1 witness: login, password and all three extra keys given; login wins
C1_Witness ==
    /\ BuiltFromConn
    /\ BothLoginPassword
    /\ ExtraStr("aws_access_key_id") # None
    /\ ExtraStr("aws_secret_access_key") # None
    /\ ExtraStr("aws_session_token") # None
    /\ orig_wrapper.aws_access_key_id = "mock-login"
    /\ orig_wrapper.aws_session_token = "mock-aws-session-token"

RECURSIVE LastRegionName(_, _)
LastRegionName(seq, inherited) ==
    IF seq = <<>> THEN inherited
    ELSE IF seq[Len(seq)].region_name # None THEN seq[Len(seq)].region_name
    ELSE LastRegionName(SubSeq(seq, 1, Len(seq) - 1), inherited)

RECURSIVE LastBotocoreConfig(_, _)
LastBotocoreConfig(seq, inherited) ==
    IF seq = <<>> THEN inherited
    ELSE IF seq[Len(seq)].botocore_config # NoneObj THEN seq[Len(seq)].botocore_config
    ELSE LastBotocoreConfig(SubSeq(seq, 1, Len(seq) - 1), inherited)

\* C2: after any chain of wraps, every non-init field of the result equals
\* the original's, the region is the latest override given (else the
\* original's region) and the botocore config is the latest override given
\* (else the original's).
C2_WrapKeepsNonInitFields ==
    pc = "built" =>
        /\ \A f \in (DOMAIN orig_wrapper) \ {"region_name", "botocore_config"} :
              wrap_conn[f] = orig_wrapper[f]
        /\ DOMAIN wrap_conn = DOMAIN orig_wrapper
        /\ wrap_conn.region_name =
              LastRegionName(overrides, orig_wrapper.region_name)
        /\ wrap_conn.botocore_config =
              LastBotocoreConfig(overrides, orig_wrapper.botocore_config)

\* C2 witness: a wrapper with credentials, region and role wrapped twice, the
\* first wrap overriding the region and the second nothing
C2_Witness ==
    /\ pc = "built"
    /\ Len(overrides) = 2
    /\ overrides[1].region_name = "ca-central-1"
    /\ overrides[2].region_name = None
    /\ overrides[2].botocore_config = NoneObj
    /\ orig_wrapper.region_name = "mock-region"
    /\ orig_wrapper.role_arn = MOCK_ROLE_ARN
    /\ wrap_conn.region_name = "ca-central-1"
    /\ wrap_conn.aws_access_key_id = "mock-login"

\* C3: the resolved region is the region_name argument when given, else the
\* extra's region_name when given, else None.
C3_RegionPrecedence ==
    BuiltFromConn =>
        orig_wrapper.region_name =
            IF args.region_name # None THEN args.region_name
            ELSE IF ExtraStr("region_name") # None THEN Extra["region_name"]
            ELSE None

\* C3 witness: both the argument and the extra give a region
C3_Witness ==
    /\ BuiltFromConn
    /\ args.region_name = "mock-region-name"
    /\ ExtraStr("region_name") = "mock-connection-region-name"
    /\ orig_wrapper.region_name = "mock-region-name"

\* C4: a wrapper is truthy iff it was built from a connection (even one whose
\* conn_id is None) or with at least one of region_name / botocore_config.
C4_Truthy ==
    pc = "built" =>
        (Truthy(orig_wrapper) <=>
            \/ conn # NoneObj
            \/ args.region_name # None
            \/ args.botocore_config # NoneObj)

\* C4 witness: a connection whose conn_id is None, no overrides
C4_Witness ==
    /\ BuiltFromConn
    /\ conn.conn_id = None
    /\ args.region_name = None
    /\ args.botocore_config = NoneObj
    /\ Truthy(orig_wrapper)

\* the extra's service_config entry of the service the last call named
CalledEndpoint == pc = "built" /\ result # NoneObj /\ result.op = "get_service_endpoint_url"

ExtraServiceConfig ==
    IF "service_config" \in DOMAIN Extra THEN Extra["service_config"] ELSE EmptyDict

EntryHasEndpointUrl(service_name) ==
    /\ service_name \in DOMAIN ExtraServiceConfig
    /\ ExtraServiceConfig[service_name] # NoneObj
    /\ "endpoint_url" \in DOMAIN ExtraServiceConfig[service_name]

ExactlyOneStsFlag ==
    result.sts_connection_assume # result.sts_test_connection

BothStsFlags == result.sts_connection_assume /\ result.sts_test_connection

NoStsFlag == ~result.sts_connection_assume /\ ~result.sts_test_connection

\* C5 as stated: "sts" with exactly one flag and no endpoint_url key in
\* service_config["sts"] returns the global endpoint_url.
C5_StsFlaggedFallsBackToGlobal ==
    (CalledEndpoint /\ result.service_name = "sts" /\ ExactlyOneStsFlag
        /\ ~EntryHasEndpointUrl("sts"))
    => (result.raised = "" /\ result.value = ExtraStr("endpoint_url"))

\* C5 amended: "sts" with exactly one flag and no endpoint_url key in
\* service_config["sts"] returns None, also when a global endpoint_url is
\* configured.
C5_StsFlaggedNoFallback ==
    (CalledEndpoint /\ result.service_name = "sts" /\ ExactlyOneStsFlag
        /\ ~EntryHasEndpointUrl("sts"))
    => (result.raised = "" /\ result.value = None)

\* C5 witness: global endpoint_url configured, none for sts, one flag set
C5_Witness ==
    /\ CalledEndpoint
    /\ result.service_name = "sts"
    /\ ExactlyOneStsFlag
    /\ ~EntryHasEndpointUrl("sts")
    /\ ExtraStr("endpoint_url") = "https://global.service"
    /\ result.value = None

\* C6: for "sts" with exactly one flag the result is service_config["sts"]
\* endpoint_url when configured and None otherwise, never the global one;
\* with neither flag "sts" falls back to the global endpoint_url.
C6_StsEndpoint ==
    (CalledEndpoint /\ result.service_name = "sts") =>
        /\ ExactlyOneStsFlag =>
            /\ result.raised = ""
            /\ result.value = IF EntryHasEndpointUrl("sts")
                              THEN ExtraServiceConfig["sts"]["endpoint_url"]
                              ELSE None
        /\ NoStsFlag =>
            /\ result.raised = ""
            /\ result.value = IF EntryHasEndpointUrl("sts")
                              THEN ExtraServiceConfig["sts"]["endpoint_url"]
                              ELSE ExtraStr("endpoint_url")

\* C6 witness: both endpoints configured ("mixin"), sts_test_connection set
C6_Witness ==
    /\ CalledEndpoint
    /\ result.service_name = "sts"
    /\ result.sts_test_connection /\ ~result.sts_connection_assume
    /\ ExtraStr("endpoint_url") = "https://global.service"
    /\ EntryHasEndpointUrl("sts")
    /\ result.value = "https://sts.service:1234"

\* C7: for a service other than "sts", whatever the flags, the result is the
\* service's endpoint_url when its entry is a dict holding that key (even
\* with value None), and otherwise the global endpoint_url (None if unset).
C7_ServiceEndpoint ==
    (CalledEndpoint /\ result.service_name # "sts") =>
        /\ result.raised = ""
        /\ result.value = IF EntryHasEndpointUrl(result.service_name)
                          THEN ExtraServiceConfig[result.service_name]["endpoint_url"]
                          ELSE ExtraStr("endpoint_url")

\* C7 witness: sns has endpoint_url None while a global endpoint_url is set
C7_Witness ==
    /\ CalledEndpoint
    /\ result.service_name = "sns"
    /\ EntryHasEndpointUrl("sns")
    /\ ExtraServiceConfig["sns"]["endpoint_url"] = None
    /\ ExtraStr("endpoint_url") = "https://global.service"
    /\ result.value = None

\* C8: "sts" with both flags always raises the AirflowException; any other
\* service with both flags never raises and returns what it returns with
\* both flags false.
C8_BothStsFlags ==
    (CalledEndpoint /\ BothStsFlags) =>
        IF result.service_name = "sts"
        THEN result.raised = "AirflowException: Can't resolve STS endpoint when both"
        ELSE /\ result.raised = ""
             /\ result.value =
                   get_service_endpoint_url(wrap_conn, result.service_name,
                                            FALSE, FALSE).value

\* C8 witness: "sts" with both flags raises although an sts endpoint is set
C8_Witness ==
    /\ CalledEndpoint
    /\ BothStsFlags
    /\ result.service_name = "sts"
    /\ EntryHasEndpointUrl("sts")
    /\ result.raised # ""

ExtraKwargs ==
    IF "assume_role_kwargs" \in DOMAIN Extra THEN Extra["assume_role_kwargs"]
    ELSE EmptyDict

WithRoleArn == BuiltFromConn /\ ExtraStr("role_arn") # None

C10_NestedExternalIdWins ==
    (WithRoleArn /\ "ExternalId" \in DOMAIN ExtraKwargs) =>
        /\ "ExternalId" \in DOMAIN orig_wrapper.assume_role_kwargs
        /\ orig_wrapper.assume_role_kwargs["ExternalId"] = ExtraKwargs["ExternalId"]
        /\ orig_wrapper.assume_role_kwargs["ExternalId"] # ExtraStr("external_id")

\* C10 witness: ExternalId in assume_role_kwargs and a top-level external_id
C10_Witness ==
    /\ WithRoleArn
    /\ "ExternalId" \in DOMAIN ExtraKwargs
    /\ ExtraStr("external_id") = "mock-external-id-in-extra"
    /\ ExtraStr("assume_role_method") = None
    /\ orig_wrapper.assume_role_kwargs = ExtraKwargs

Constructed == pc # "new" /\ conn # NoneObj

\* C11: with a role_arn the resolved method is the extra's assume_role_method
\* when it is one of the three supported ones, assume_role when unspecified,
\* and the constructor raises NotImplementedError naming any other value;
\* without a role_arn, role_arn and method are None, assume_role_kwargs is {}
\* and an assume_role_method in the extra is ignored.
C11_AssumeRoleMethod ==
    Constructed =>
        IF ExtraStr("role_arn") # None
        THEN IF ExtraStr("assume_role_method") = None
             THEN /\ pc = "built"
                  /\ orig_wrapper.role_arn = Extra["role_arn"]
                  /\ orig_wrapper.assume_role_method = "assume_role"
             ELSE IF Extra["assume_role_method"] \in
                        {"assume_role", "assume_role_with_saml",
                         "assume_role_with_web_identity"}
             THEN /\ pc = "built"
                  /\ orig_wrapper.role_arn = Extra["role_arn"]
                  /\ orig_wrapper.assume_role_method = Extra["assume_role_method"]
             ELSE /\ pc = "failed"
                  /\ result.raised =
                        "NotImplementedError: Found assume_role_method='"
                            \o Extra["assume_role_method"] \o "'"
        ELSE /\ pc = "built"
             /\ orig_wrapper.role_arn = None
             /\ orig_wrapper.assume_role_method = None
             /\ orig_wrapper.assume_role_kwargs = EmptyDict

\* C11 witness: role_arn with assume_role_method "dummy_method" raises
C11_Witness ==
    /\ pc = "failed"
    /\ ExtraStr("role_arn") = MOCK_ROLE_ARN
    /\ ExtraStr("assume_role_method") = "dummy_method"
    /\ result.raised = "NotImplementedError: Found assume_role_method='dummy_method'"

CalledServiceConfig ==
    pc = "built" /\ result # NoneObj /\ result.op = "get_service_config"

\* C12: get_service_config returns {} for a service that is no key of
\* service_config and the stored value for one that is, None included, so an
\* absent key and a key holding None give different results.
C12_ServiceConfig ==
    CalledServiceConfig =>
        IF result.service_name \in DOMAIN ExtraServiceConfig
        THEN /\ result.config = ExtraServiceConfig[result.service_name]
             /\ (ExtraServiceConfig[result.service_name] = NoneObj
                    => result.config # EmptyDict)
        ELSE result.config = EmptyDict

\* C12 witness: service_config["sns"] is None and None is returned
C12_Witness ==
    /\ CalledServiceConfig
    /\ result.service_name = "sns"
    /\ "sns" \in DOMAIN ExtraServiceConfig
    /\ ExtraServiceConfig["sns"] = NoneObj
    /\ result.config = NoneObj

CalledSessionKwargs ==
    pc = "built" /\ result # NoneObj /\ result.op = "session_kwargs"

\* the mapping derived from the current wrapper's resolved fields
DerivedSessionKwargs ==
    [k \in {f \in {"aws_access_key_id", "aws_secret_access_key",
                   "aws_session_token", "profile_name", "region_name"} :
                wrap_conn[f] # None} |-> wrap_conn[k]]

\* C13: whatever the caller did to mappings it got before, the mapping the
\* wrapper keeps and every mapping session_kwargs returns is the one derived
\* at construction: the session fields whose resolved value is set.
C13_SessionKwargsCopy ==
    pc = "built" =>
        /\ session_store = DerivedSessionKwargs
        /\ CalledSessionKwargs => result.mapping = DerivedSessionKwargs

\* C13 witness: a retrieval made after the caller added botocore_session to
\* the mapping it got before
C13_Witness ==
    /\ CalledSessionKwargs
    /\ result.previous # NoneObj
    /\ "botocore_session" \in DOMAIN result.previous
    /\ DOMAIN result.mapping = {"aws_access_key_id", "aws_session_token"}
    /\ result.mapping = DerivedSessionKwargs
    /\ result.mapping # result.previous

CalledBotocoreConfig ==
    pc = "built" /\ result # NoneObj /\ result.op = "botocore_config"

ConfigFromKwargs ==
    [kwargs |-> [k \in DOMAIN Extra["config_kwargs"] |->
        IF k = "signature_version" /\ Extra["config_kwargs"][k] = "unsigned"
        THEN "UNSIGNED" ELSE Extra["config_kwargs"][k]]]

\* C14: a botocore_config argument is the resolved config and nothing is
\* built; without it, config_kwargs of the extra are built into a Config with
\* signature_version "unsigned" replaced by UNSIGNED; with neither the config
\* is None; Config is built at most once however often the config is read,
\* and every read returns the resolved object.
C14_BotocoreConfig ==
    pc = "built" =>
        /\ config_builds <= 1
        /\ IF args.botocore_config # NoneObj
           THEN /\ orig_wrapper.botocore_config = args.botocore_config
                /\ config_builds = 0
           ELSE IF "config_kwargs" \in DOMAIN Extra
           THEN /\ orig_wrapper.botocore_config = ConfigFromKwargs
                /\ config_builds = 1
           ELSE /\ orig_wrapper.botocore_config = NoneObj
                /\ config_builds = 0
        /\ CalledBotocoreConfig =>
              result.config =
                  LastBotocoreConfig(overrides, orig_wrapper.botocore_config)

\* C14 witness: config_kwargs {"signature_version": "unsigned"} read back
C14_Witness ==
    /\ CalledBotocoreConfig
    /\ Len(overrides) = 0
    /\ args.botocore_config = NoneObj
    /\ "config_kwargs" \in DOMAIN Extra
    /\ Extra["config_kwargs"] = [signature_version |-> "unsigned"]
    /\ result.config = [kwargs |-> [signature_version |-> "UNSIGNED"]]
    /\ config_builds = 1

ConnTypeWarnings ==
    { "expected connection type 'aws', got '" \o t \o "'" : t \in {"AWS", "emr"} }

\* C15: a conn_type of None resolves to "aws" and "aws" is kept, both
\* without warning; any other conn_type, "AWS" included, is warned about
\* with "expected connection type 'aws', got '<type>'", is kept verbatim and
\* does not make the constructor raise.
C15_ConnType ==
    Constructed =>
        /\ ExtraStr("assume_role_method") = None => pc = "built"
        /\ IF conn.conn_type = None
           THEN /\ warnings \cap ConnTypeWarnings = {}
                /\ pc = "built" => orig_wrapper.conn_type = "aws"
           ELSE IF conn.conn_type = "aws"
           THEN /\ warnings \cap ConnTypeWarnings = {}
                /\ pc = "built" => orig_wrapper.conn_type = "aws"
           ELSE /\ ("expected connection type 'aws', got '"
                        \o conn.conn_type \o "'") \in warnings
                /\ pc = "built" => orig_wrapper.conn_type = conn.conn_type

\* C15 witness: conn_type "AWS" is warned about and kept
C15_Witness ==
    /\ BuiltFromConn
    /\ conn.conn_type = "AWS"
    /\ "expected connection type 'aws', got 'AWS'" \in warnings
    /\ orig_wrapper.conn_type = "AWS"

LegacyProfile == "profile" \in DOMAIN Extra /\ "s3_config_file" \notin DOMAIN Extra

\* C16: the resolved profile name is the extra's profile_name (None when
\* absent); a legacy profile key without s3_config_file is warned about, does
\* not raise and is not used as the profile name, so that session_kwargs has
\* no profile_name key; nothing is warned about when the extra holds only
\* profile_name, region_name and the credential keys.
C16_ProfileName ==
    Constructed =>
        /\ pc = "built" => orig_wrapper.profile_name = ExtraStr("profile_name")
        /\ LegacyProfile =>
            /\ "Found 'profile' without specifying 's3_config_file'" \in warnings
            /\ ExtraStr("assume_role_method") = None => pc = "built"
            /\ (pc = "built" /\ ExtraStr("profile_name") = None) =>
                /\ orig_wrapper.profile_name = None
                /\ "profile_name" \notin DOMAIN session_store
        /\ (/\ DOMAIN Extra \subseteq
                  {"profile_name", "region_name", "aws_access_key_id",
                   "aws_secret_access_key", "aws_session_token"}
            /\ conn.conn_type = "aws")
           => (pc = "built" /\ warnings = {})

\* C16 witness: only the legacy profile key is given
C16_Witness ==
    /\ BuiltFromConn
    /\ DOMAIN Extra = {"profile"}
    /\ warnings = {"Found 'profile' without specifying 's3_config_file'"}
    /\ orig_wrapper.profile_name = None
    /\ "profile_name" \notin DOMAIN session_store

NullEntry(service_name) ==
    /\ service_name \in DOMAIN ExtraServiceConfig
    /\ ExtraServiceConfig[service_name] = NoneObj

\* C17 as stated: a lookup for a service whose service_config entry is None
\* never fails and returns the global endpoint_url (None when unset); the
\* only lookup that fails is "sts" with both flags.
C17_NullEntryReturnsGlobal ==
    CalledEndpoint =>
        /\ result.raised # "" => (result.service_name = "sts" /\ BothStsFlags)
        /\ (NullEntry(result.service_name)
                /\ ~(result.service_name = "sts" /\ BothStsFlags))
           => (result.raised = "" /\ result.value = ExtraStr("endpoint_url"))

\* C17 amended: a lookup for a service whose service_config entry is None
\* never fails and returns what a lookup for a service without an entry
\* returns: the global endpoint_url (None when unset), and None for "sts"
\* looked up with one STS flag; the only lookup that fails is "sts" with both
\* flags.
C17_NullEntryAsMissing ==
    CalledEndpoint =>
        /\ result.raised # "" => (result.service_name = "sts" /\ BothStsFlags)
        /\ (NullEntry(result.service_name)
                /\ ~(result.service_name = "sts" /\ BothStsFlags))
           => /\ result.raised = ""
              /\ result.value =
                    IF result.service_name = "sts" /\ ExactlyOneStsFlag
                    THEN None ELSE ExtraStr("endpoint_url")

\* C17 witness: service_config["sns"] is None and the global endpoint_url is
\* returned
C17_Witness ==
    /\ CalledEndpoint
    /\ NullEntry("sns")
    /\ result.service_name = "sns"
    /\ result.raised = ""
    /\ result.value = "https://global.service"

=============================================================================
